---- MODULE Spec2Model ----
(***************************************************************************)
(* Model of src/src/wireguard_config.rs: the WireGuard configuration       *)
(* parser of prometheus_wireguard_exporter.                                *)
(*                                                                         *)
(* Text is modelled by TLA+ strings, one TLA+ character per Rust `char`.   *)
(* Rust slices a &str by BYTE offsets and panics when an offset is not a   *)
(* char boundary, so every slice of the source goes through byte offsets   *)
(* (len_utf8, is_char_boundary).  The alphabet of the model is ASCII plus  *)
(* U+00A0 NO-BREAK SPACE, a two-byte character that str::trim strips.      *)
(***************************************************************************)
EXTENDS Integers, Sequences, FiniteSets, TLC

VARIABLES
    pc,          \* position of the running call
    txt,         \* peer_entry_hashmap_try_from: the argument
    input_lines, \* txt.lines(), the iterator's items
    li,          \* index of the next item of txt.lines()
    cur_block,   \* Option<Vec<&str>>
    v_blocks,    \* Vec<Vec<&str>>
    bi,          \* index of the next block of `for block in &v_blocks`
    hm,          \* HashMap<&str, PeerEntry>
    result,      \* what peer_entry_hashmap_try_from returned
    block,       \* PeerEntry::try_from: the argument `lines`
    lj,          \* index of the next line of `for line in lines`
    acc,         \* public_key, allowed_ips, name of the scan (and a panic)
    ret,         \* what PeerEntry::try_from returned
    arg,         \* from_pound_line_to_key_value: the argument `line`
    pret         \* what from_pound_line_to_key_value returned

vars == <<pc, txt, input_lines, li, cur_block, v_blocks, bi, hm, result,
          block, lj, acc, ret, arg, pret>>

(***************************************************************************)
(* Bounds of the explored inputs.                                          *)
(***************************************************************************)
MaxChunks == 3
MaxBlockLines == 3
MaxPoundLen == 4

(***************************************************************************)
(* Characters and the std::str operations the source calls.                *)
(***************************************************************************)
\* U+00A0 NO-BREAK SPACE (White_Space = yes, two bytes in UTF-8)
NBSP == " "

Char(s, i) == SubSeq(s, i, i)

\* char::len_utf8, on the model's alphabet
len_utf8(c) == IF c = NBSP THEN 2 ELSE 1

\* U+000B LINE TABULATION and U+000C FORM FEED (White_Space = yes, one byte)
VT == ""
FF == "\f"

\* char::is_whitespace, on the model's alphabet: the White_Space characters
\* U+0009..U+000D, U+0020 and U+00A0
is_whitespace(c) == c \in {"\t", "\n", VT, FF, "\r", " ", NBSP}

\* str::len: the length in bytes
RECURSIVE byte_len(_)
byte_len(s) == IF s = "" THEN 0 ELSE len_utf8(Head(s)) + byte_len(Tail(s))

\* str::is_char_boundary
is_char_boundary(s, b) == \E i \in 0..Len(s) : byte_len(SubSeq(s, 1, i)) = b

\* the number of chars before byte offset b (a char boundary)
chars_before(s, b) == CHOOSE i \in 0..Len(s) : byte_len(SubSeq(s, 1, i)) = b

\* &s[b..] and &s[..b] for a byte offset b that is a char boundary
slice_from(s, b) == SubSeq(s, chars_before(s, b) + 1, Len(s))
slice_to(s, b) == SubSeq(s, 1, chars_before(s, b))

\* str::starts_with
starts_with(s, p) == Len(s) >= Len(p) /\ SubSeq(s, 1, Len(p)) = p

\* str::trim_start, str::trim_end, str::trim
RECURSIVE trim_start(_)
trim_start(s) ==
    IF s # "" /\ is_whitespace(Head(s)) THEN trim_start(Tail(s)) ELSE s

RECURSIVE trim_end(_)
trim_end(s) ==
    IF s # "" /\ is_whitespace(Char(s, Len(s)))
    THEN trim_end(SubSeq(s, 1, Len(s) - 1))
    ELSE s

trim(s) == trim_end(trim_start(s))

\* char::to_lowercase on the model's alphabet: ASCII letters fold, the rest stay
UPPER == "ABCDEFGHIJKLMNOPQRSTUVWXYZ"
LOWER == "abcdefghijklmnopqrstuvwxyz"

char_to_lowercase(c) ==
    IF \E i \in 1..Len(UPPER) : Char(UPPER, i) = c
    THEN Char(LOWER, CHOOSE i \in 1..Len(UPPER) : Char(UPPER, i) = c)
    ELSE c

\* str::to_lowercase
RECURSIVE to_lowercase(_)
to_lowercase(s) ==
    IF s = "" THEN "" ELSE char_to_lowercase(Head(s)) \o to_lowercase(Tail(s))

\* str::find(char): the byte offset of the first match, -1 for None
RECURSIVE find_from(_, _, _, _)
find_from(s, c, i, p) ==
    IF i > Len(s) THEN -1
    ELSE IF Char(s, i) = c THEN p
    ELSE find_from(s, c, i + 1, p + len_utf8(Char(s, i)))

find(s, c) == find_from(s, c, 1, 0)

(***************************************************************************)
(* Option and Result values.                                               *)
(***************************************************************************)
None == [tag |-> "None"]
Some(v) == [tag |-> "Some", v |-> v]
Panic == [tag |-> "Panic"]
Ok(v) == [tag |-> "Ok", v |-> v]
Err(kind, lines) == [tag |-> "Err", kind |-> kind, lines |-> lines]

(***************************************************************************)
(* fn after_char(s, c_split): the text after the first c_split, or all of  *)
(* s when there is none.  c_split is '=' at both call sites, one byte, so  *)
(* p + 1 is a char boundary.                                               *)
(***************************************************************************)
RECURSIVE after_char_loop(_, _, _, _)
after_char_loop(s, c_split, i, p) ==
    IF i > Len(s) THEN s
    ELSE IF Char(s, i) = c_split THEN slice_from(s, p + 1)
    ELSE after_char_loop(s, c_split, i + 1, p + len_utf8(Char(s, i)))

after_char(s, c_split) == after_char_loop(s, c_split, 1, 0)

(***************************************************************************)
(* fn from_pound_line_to_key_value(line).  &line[1..] panics when byte 1   *)
(* is not a char boundary (the line is empty, or its first char is wider   *)
(* than one byte).                                                         *)
(***************************************************************************)
from_pound_line_to_key_value_lastEq(line) ==
    IF ~is_char_boundary(line, 1) THEN Panic
    ELSE LET rest == slice_from(line, 1)
             eqs == {i \in 1..Len(rest) : Char(rest, i) = "="}
         IN IF eqs = {} THEN None
            ELSE LET e == CHOOSE i \in eqs : \A j \in eqs : j <= i
                 IN Some(<<trim(SubSeq(rest, 1, e - 1)),
                           trim(SubSeq(rest, e + 1, Len(rest)))>>)

from_pound_line_to_key_value(line) ==
    IF ~is_char_boundary(line, 1) THEN Panic
    ELSE LET rest == slice_from(line, 1)
             equals_pos == find(rest, "=")
         IN IF equals_pos # -1
            THEN LET key == trim(slice_to(rest, equals_pos))
                     value == trim(slice_from(rest, equals_pos + 1))
                 IN Some(<<key, value>>)
            ELSE None

(***************************************************************************)
(* impl TryFrom<&[&str]> for PeerEntry.  acc holds the three locals of the *)
(* scan; panicked records that a call made by the loop body panicked.      *)
(***************************************************************************)
acc0 == [public_key |-> "", allowed_ips |-> "", name |-> None,
         panicked |-> FALSE]

\* one iteration of `for line in lines`
scan_line(a, line) ==
    LET line_lowercase == to_lowercase(line)
    IN IF starts_with(line_lowercase, "publickey")
       THEN [a EXCEPT !.public_key = trim(after_char(line, "="))]
       ELSE IF starts_with(line_lowercase, "allowedips")
       THEN [a EXCEPT !.allowed_ips = trim(after_char(line, "="))]
       ELSE IF starts_with(trim(line), "#")
       THEN LET kv == from_pound_line_to_key_value(line)
            IN IF kv.tag = "Panic" THEN [a EXCEPT !.panicked = TRUE]
               ELSE IF kv.tag = "Some" /\ kv.v[1] = "friendly_name"
               THEN [a EXCEPT !.name = Some(kv.v[2])]
               ELSE a
       ELSE a

\* the whole loop, from line i on; a panic ends it
RECURSIVE scan(_, _, _)
scan(a, lines, i) ==
    IF a.panicked \/ i > Len(lines) THEN a
    ELSE scan(scan_line(a, lines[i]), lines, i + 1)

\* the sanity checks after the loop
validate(a, lines) ==
    IF a.public_key = "" THEN Err("PublicKeyNotFound", lines)
    ELSE IF a.allowed_ips = "" THEN Err("AllowedIPsEntryNotFound", lines)
    ELSE Ok([public_key |-> a.public_key, allowed_ips |-> a.allowed_ips,
             name |-> a.name])

PeerEntry_try_from(lines) ==
    LET a == scan(acc0, lines, 1)
    IN IF a.panicked THEN Panic ELSE validate(a, lines)

(***************************************************************************)
(* str::lines: the pieces ended by "\n", each without its "\n" and without *)
(* one "\r" before it; a last piece with no "\n" is yielded as it is, and  *)
(* there is no empty last piece.                                           *)
(***************************************************************************)
strip_cr(piece) ==
    IF piece # "" /\ Char(piece, Len(piece)) = "\r"
    THEN SubSeq(piece, 1, Len(piece) - 1)
    ELSE piece

\* the pieces of s from char `start` on
RECURSIVE lines_from(_, _)
lines_from(s, start) ==
    IF start > Len(s) THEN <<>>
    ELSE LET ends == {i \in start..Len(s) : Char(s, i) = "\n"}
         IN IF ends = {} THEN <<SubSeq(s, start, Len(s))>>
            ELSE LET e == CHOOSE i \in ends : \A j \in ends : i <= j
                 IN <<strip_cr(SubSeq(s, start, e - 1))>> \o lines_from(s, e + 1)

str_lines(s) == lines_from(s, 1)

(***************************************************************************)
(* The specification of from_pound_line_to_key_value alone: Init draws a   *)
(* line starting with '#', the call returns.                               *)
(***************************************************************************)
PoundAlphabet == {" ", "=", "k", FF, NBSP}

RECURSIVE StringsUpTo(_, _)
StringsUpTo(alphabet, n) ==
    IF n = 0 THEN {""}
    ELSE LET shorter == StringsUpTo(alphabet, n - 1)
         IN shorter \cup {s \o c : s \in shorter, c \in alphabet}

PoundLines == {"#" \o s : s \in StringsUpTo(PoundAlphabet, MaxPoundLen)}

\* the variables of a call that is not running keep their initial values
IdleParse ==
    /\ txt = "" /\ input_lines = <<>> /\ li = 1 /\ cur_block = None
    /\ v_blocks = <<>> /\ bi = 1 /\ hm = [k \in {} |-> None] /\ result = None

IdleBuild ==
    /\ block = <<>> /\ lj = 1 /\ ret = None
    /\ acc = [public_key |-> "", allowed_ips |-> "", name |-> None,
              panicked |-> FALSE]

IdlePound == arg = "" /\ pret = None

InitPound ==
    /\ pc = "pound_call"
    /\ IdleParse /\ IdleBuild
    /\ arg \in PoundLines
    /\ pret = None

CallPound ==
    /\ pc = "pound_call"
    /\ pret' = from_pound_line_to_key_value(arg)
    /\ pc' = "pound_ret"
    /\ UNCHANGED <<txt, input_lines, li, cur_block, v_blocks, bi, hm, result,
                   block, lj, acc, ret, arg>>

NextPound == CallPound

SpecPound == InitPound /\ [][NextPound]_vars

(***************************************************************************)
(* The specification of PeerEntry::try_from alone: Init draws a block, the *)
(* loop runs line by line, the sanity checks return.                       *)
(***************************************************************************)
BlockLinePool == {
    "PublicKey = k1",
    "PUBLICKEY=K1",
    "PublicKey =" \o FF \o VT,
    "PublicKey",
    "publickeys = a=b",
    " PublicKey = k7",
    "AllowedIPs = ip1",
    "allowedips=ip2" \o VT,
    "AllowedIPs = " \o FF,
    "# friendly_name=n1",
    "#friendly_name = n 2",
    " # friendly_name=n3",
    "# Friendly_Name=n4",
    "# plain comment",
    NBSP \o "# friendly_name=n5" }

RECURSIVE SeqsUpTo(_, _)
SeqsUpTo(S, n) ==
    IF n = 0 THEN {<<>>}
    ELSE LET shorter == SeqsUpTo(S, n - 1)
         IN shorter \cup {Append(q, x) : q \in shorter, x \in S}

InitBuild ==
    /\ pc = "tf_loop"
    /\ IdleParse /\ IdlePound
    /\ block \in SeqsUpTo(BlockLinePool, MaxBlockLines)
    /\ lj = 1 /\ acc = acc0 /\ ret = None

ScanStep ==
    /\ pc = "tf_loop"
    /\ lj <= Len(block)
    /\ acc' = scan_line(acc, block[lj])
    /\ lj' = lj + 1
    /\ IF acc'.panicked
       THEN ret' = Panic /\ pc' = "tf_done"
       ELSE UNCHANGED <<ret, pc>>
    /\ UNCHANGED <<txt, input_lines, li, cur_block, v_blocks, bi, hm, result,
                   block, arg, pret>>

Validate ==
    /\ pc = "tf_loop"
    /\ lj > Len(block)
    /\ ret' = validate(acc, block)
    /\ pc' = "tf_done"
    /\ UNCHANGED <<txt, input_lines, li, cur_block, v_blocks, bi, hm, result,
                   block, lj, acc, arg, pret>>

NextBuild == ScanStep \/ Validate

SpecBuild == InitBuild /\ [][NextBuild]_vars

\* the stepwise run and the whole call agree on what try_from returns
BuildAgrees == pc = "tf_done" => ret = PeerEntry_try_from(block)

(***************************************************************************)
(* peer_entry_hashmap_try_from(txt): the segmenting loop over txt.lines(), *)
(* the leftover block, the loop over the blocks, the return.               *)
(***************************************************************************)
\* HashMap::insert: a later value replaces the one stored under its key
hm_insert_keep_first(m, k, v) ==
    [x \in DOMAIN m \cup {k} |-> IF x \in DOMAIN m THEN m[x] ELSE v]

hm_insert(m, k, v) ==
    [x \in DOMAIN m \cup {k} |-> IF x = k THEN v ELSE m[x]]

\* the texts explored: up to MaxChunks of these pieces, one after another
ChunkPool == {
    "[Peer]\nPublicKey = k1\nAllowedIPs = ip1\n",
    "[Peer]\r\n# friendly_name=n2\r\nPublicKey = k1\r\n\r\nAllowedIPs = ip2\r\n",
    "[Peer]\nPublicKey = k2\n \n",
    "[Peer]\n",
    "[Interface]\r\nPublicKey = k9\r\nAllowedIPs = ip9\r\n# friendly_name=n9\r\n",
    "AllowedIPs = ip3\n",
    "PublicKey = k3\n# friendly_name=n3\n",
    NBSP \o "# note\n",
    "[Peer]" }

RECURSIVE TextsUpTo(_)
TextsUpTo(n) ==
    IF n = 0 THEN {""}
    ELSE LET shorter == TextsUpTo(n - 1)
         IN shorter \cup {t \o c : t \in shorter, c \in ChunkPool}

Init ==
    /\ pc = "scan"
    /\ IdleBuild /\ IdlePound
    /\ txt \in TextsUpTo(MaxChunks)
    /\ input_lines = str_lines(txt)
    /\ li = 1 /\ cur_block = None /\ v_blocks = <<>>
    /\ bi = 1 /\ hm = [k \in {} |-> None] /\ result = None

\* a line starting with '[': close the open block, open one on "[Peer]"
Header_open_any ==
    /\ pc = "scan"
    /\ li <= Len(input_lines)
    /\ LET line == input_lines[li]
       IN /\ starts_with(line, "[")
          /\ v_blocks' = IF cur_block.tag = "Some"
                         THEN Append(v_blocks, cur_block.v)
                         ELSE v_blocks
          /\ cur_block' = Some(<<>>)
    /\ li' = li + 1
    /\ UNCHANGED <<pc, txt, input_lines, bi, hm, result,
                   block, lj, acc, ret, arg, pret>>

Header ==
    /\ pc = "scan"
    /\ li <= Len(input_lines)
    /\ LET line == input_lines[li]
       IN /\ starts_with(line, "[")
          /\ v_blocks' = IF cur_block.tag = "Some"
                         THEN Append(v_blocks, cur_block.v)
                         ELSE v_blocks
          /\ cur_block' = IF line = "[Peer]" THEN Some(<<>>) ELSE None
    /\ li' = li + 1
    /\ UNCHANGED <<pc, txt, input_lines, bi, hm, result,
                   block, lj, acc, ret, arg, pret>>

\* any other line: pushed on the open block unless it is empty
Content_keep_blank ==
    /\ pc = "scan"
    /\ li <= Len(input_lines)
    /\ LET line == input_lines[li]
       IN /\ ~starts_with(line, "[")
          /\ cur_block' = IF cur_block.tag = "Some"
                          THEN Some(Append(cur_block.v, line))
                          ELSE cur_block
    /\ li' = li + 1
    /\ UNCHANGED <<pc, txt, input_lines, v_blocks, bi, hm, result,
                   block, lj, acc, ret, arg, pret>>

Content ==
    /\ pc = "scan"
    /\ li <= Len(input_lines)
    /\ LET line == input_lines[li]
       IN /\ ~starts_with(line, "[")
          /\ cur_block' = IF cur_block.tag = "Some" /\ line # ""
                          THEN Some(Append(cur_block.v, line))
                          ELSE cur_block
    /\ li' = li + 1
    /\ UNCHANGED <<pc, txt, input_lines, v_blocks, bi, hm, result,
                   block, lj, acc, ret, arg, pret>>

\* the end of the lines: the leftover block is pushed
Leftover ==
    /\ pc = "scan"
    /\ li > Len(input_lines)
    /\ v_blocks' = IF cur_block.tag = "Some"
                   THEN Append(v_blocks, cur_block.v)
                   ELSE v_blocks
    /\ pc' = "build"
    /\ UNCHANGED <<txt, input_lines, li, cur_block, bi, hm, result,
                   block, lj, acc, ret, arg, pret>>

\* one iteration of `for block in &v_blocks`: try_from, `?`, insert
Build ==
    /\ pc = "build"
    /\ bi <= Len(v_blocks)
    /\ LET p == PeerEntry_try_from(v_blocks[bi])
       IN IF p.tag = "Ok"
          THEN /\ hm' = hm_insert(hm, p.v.public_key, p.v)
               /\ bi' = bi + 1
               /\ UNCHANGED <<pc, result>>
          ELSE /\ result' = p
               /\ pc' = "done"
               /\ UNCHANGED <<hm, bi>>
    /\ UNCHANGED <<txt, input_lines, li, cur_block, v_blocks,
                   block, lj, acc, ret, arg, pret>>

\* Ok(hm)
Return ==
    /\ pc = "build"
    /\ bi > Len(v_blocks)
    /\ result' = Ok(hm)
    /\ pc' = "done"
    /\ UNCHANGED <<txt, input_lines, li, cur_block, v_blocks, bi, hm,
                   block, lj, acc, ret, arg, pret>>

Next == Header \/ Content \/ Leftover \/ Build \/ Return

Spec == Init /\ [][Next]_vars

(***************************************************************************)
(* What the specification says, stated from the input alone.               *)
(***************************************************************************)
SetMin(S) == CHOOSE x \in S : \A y \in S : x <= y
SetMax(S) == CHOOSE x \in S : \A y \in S : y <= x
Range(q) == {q[i] : i \in 1..Len(q)}

\* s without its leading and trailing whitespace
TrimmedText(s) ==
    LET solid == {i \in 1..Len(s) : ~is_whitespace(Char(s, i))}
    IN IF solid = {} THEN "" ELSE SubSeq(s, SetMin(solid), SetMax(solid))

FirstChar(s) == IF s = "" THEN "" ELSE SubSeq(s, 1, 1)

EqualsAt(s) == {i \in 1..Len(s) : Char(s, i) = "="}

\* the text after the first '=' of a line; nothing when the line has no '='
AfterFirstEquals(s) ==
    IF EqualsAt(s) = {} THEN "" ELSE SubSeq(s, SetMin(EqualsAt(s)) + 1, Len(s))

\* 4.2, the comment sub-parser, of a line starting with '#'
CommentKeyValue(comment) ==
    LET rest == SubSeq(comment, 2, Len(comment))
    IN IF EqualsAt(rest) = {} THEN None
       ELSE Some(<<TrimmedText(SubSeq(rest, 1, SetMin(EqualsAt(rest)) - 1)),
                   TrimmedText(AfterFirstEquals(rest))>>)

\* 4.1: the end of the [Peer] section whose header is line h
SectionEnd(ls, h) ==
    LET later == {k \in (h + 1)..Len(ls) : FirstChar(ls[k]) = "["}
    IN IF later = {} THEN Len(ls) + 1 ELSE SetMin(later)

NonEmptyLine(l) == l # ""

SectionLines(ls, h) ==
    SelectSeq(SubSeq(ls, h + 1, SectionEnd(ls, h) - 1), NonEmptyLine)

\* 4.1: one block per "[Peer]" line, in input order
RECURSIVE BlocksFrom(_, _)
BlocksFrom(ls, i) ==
    IF i > Len(ls) THEN <<>>
    ELSE IF ls[i] = "[Peer]" THEN <<SectionLines(ls, i)>> \o BlocksFrom(ls, i + 1)
    ELSE BlocksFrom(ls, i + 1)

ExpectedBlocks(ls) == BlocksFrom(ls, 1)

\* the lines of a block that match a functional key, in any letter case
KeyLines(b, key) ==
    {i \in 1..Len(b) :
        /\ Len(b[i]) >= Len(key)
        /\ SubSeq(to_lowercase(b[i]), 1, Len(key)) = key}

\* C8: the value of the last line matching key, empty when none matches
ExpectedField(b, key) ==
    IF KeyLines(b, key) = {} THEN ""
    ELSE TrimmedText(AfterFirstEquals(b[SetMax(KeyLines(b, key))]))

\* C7: the lines that are friendly_name comments once trimmed
NamedLines(b) ==
    {i \in 1..Len(b) :
        /\ FirstChar(TrimmedText(b[i])) = "#"
        /\ CommentKeyValue(TrimmedText(b[i])).tag = "Some"
        /\ CommentKeyValue(TrimmedText(b[i])).v[1] = "friendly_name"}

ExpectedName(b) ==
    IF NamedLines(b) = {} THEN None
    ELSE Some(CommentKeyValue(TrimmedText(b[SetMax(NamedLines(b))])).v[2])

\* the blocks of the input that do not build a record
FailingBlocks(blocks) ==
    {i \in 1..Len(blocks) : PeerEntry_try_from(blocks[i]).tag # "Ok"}

AllBuild(blocks) == FailingBlocks(blocks) = {}

KeyOf(b) == PeerEntry_try_from(b).v.public_key

\* the input holds [Peer] sections only
OnlyPeerSections(ls) ==
    /\ ls # <<>>
    /\ ls[1] = "[Peer]"
    /\ \A i \in 1..Len(ls) : FirstChar(ls[i]) = "[" => ls[i] = "[Peer]"

(***************************************************************************)
(* The claims.                                                             *)
(***************************************************************************)

\* C1: if a block of the input fails to build (try_from returns Err for it),
\* the call returns Err with exactly the error of the first such block in input
\* order, whatever the other blocks are, and no mapping.
C1_FailFast ==
    pc = "done" =>
        LET blocks == ExpectedBlocks(input_lines)
            failing == {i \in 1..Len(blocks) :
                            PeerEntry_try_from(blocks[i]).tag = "Err"}
        IN failing # {} =>
            /\ result.tag = "Err"
            /\ result = PeerEntry_try_from(blocks[SetMin(failing)])

\* C1, supporting: what the call does return, panics included, is the outcome
\* of the first block that does not build.
C1_FirstOutcome ==
    pc = "done" =>
        LET blocks == ExpectedBlocks(input_lines)
        IN FailingBlocks(blocks) # {} =>
            result = PeerEntry_try_from(blocks[SetMin(FailingBlocks(blocks))])

\* C2: a block with no PublicKey line fails with PublicKeyNotFound carrying
\* exactly the block's lines.
C2_NoPublicKey ==
    (pc = "tf_done" /\ KeyLines(block, "publickey") = {}) =>
        ret = Err("PublicKeyNotFound", block)

\* C2, supporting: the same whenever the scan of the block ends.
C2_NoPublicKeyScanned ==
    (pc = "tf_done" /\ KeyLines(block, "publickey") = {} /\ ~acc.panicked) =>
        ret = Err("PublicKeyNotFound", block)

\* C3: a block whose final public_key (the value of its last PublicKey line)
\* is non-empty and that has no AllowedIPs line, or whose final allowed_ips is
\* empty, fails with AllowedIPsEntryNotFound carrying exactly the block's
\* lines; that error is never produced for a block whose public_key is empty.
C3_NoAllowedIPs ==
    pc = "tf_done" =>
        /\ ( /\ ExpectedField(block, "publickey") # ""
             /\ ExpectedField(block, "allowedips") = "" )
           => ret = Err("AllowedIPsEntryNotFound", block)
        /\ (ret.tag = "Err" /\ ret.kind = "AllowedIPsEntryNotFound")
           => ExpectedField(block, "publickey") # ""

\* C3, supporting: the same of the scan's own locals, whenever the scan ends.
C3_NoAllowedIPsScanned ==
    pc = "tf_done" =>
        /\ ( /\ ~acc.panicked
             /\ acc.public_key # ""
             /\ (KeyLines(block, "allowedips") = {} \/ acc.allowed_ips = "") )
           => ret = Err("AllowedIPsEntryNotFound", block)
        /\ (ret.tag = "Err" /\ ret.kind = "AllowedIPsEntryNotFound")
           => acc.public_key # ""

\* a block with a non-empty PublicKey line and a non-empty AllowedIPs line:
\* it has lines of both keys, and each of them holds a value after its '='
WellFormedBlock(b) ==
    \A key \in {"publickey", "allowedips"} :
        /\ KeyLines(b, key) # {}
        /\ \A i \in KeyLines(b, key) : TrimmedText(AfterFirstEquals(b[i])) # ""

\* C4: when the input holds [Peer] sections only, each with a non-empty
\* PublicKey line and a non-empty AllowedIPs line, the call succeeds and the
\* mapping has as many entries as there are blocks, each block's key among them.
C4_OneEntryPerBlock ==
    LET blocks == ExpectedBlocks(input_lines)
    IN ( /\ pc = "done"
         /\ OnlyPeerSections(input_lines)
         /\ \A i \in 1..Len(blocks) : WellFormedBlock(blocks[i]) ) =>
        /\ result.tag = "Ok"
        /\ Cardinality(DOMAIN result.v) = Len(blocks)
        /\ \A i \in 1..Len(blocks) :
            /\ ExpectedField(blocks[i], "publickey") \in DOMAIN result.v
            /\ result.v[ExpectedField(blocks[i], "publickey")].public_key
                    = ExpectedField(blocks[i], "publickey")

\* C4, supporting: whenever the call returns Ok, the mapping has exactly one
\* entry per distinct public key of the blocks, stored under that key.
C4_OneEntryPerKey ==
    LET blocks == ExpectedBlocks(input_lines)
    IN (pc = "done" /\ result.tag = "Ok") =>
        /\ DOMAIN result.v = {KeyOf(blocks[i]) : i \in 1..Len(blocks)}
        /\ \A k \in DOMAIN result.v : result.v[k].public_key = k

\* C5: when every block builds, blocks sharing a public key are no error, and
\* the entry under a key is the record of the last block with that key.
C5_LastBlockWins ==
    LET blocks == ExpectedBlocks(input_lines)
    IN (pc = "done" /\ AllBuild(blocks)) =>
        /\ result.tag = "Ok"
        /\ \A i \in 1..Len(blocks) :
            LET same == {j \in 1..Len(blocks) : KeyOf(blocks[j]) = KeyOf(blocks[i])}
            IN /\ KeyOf(blocks[i]) \in DOMAIN result.v
               /\ Ok(result.v[KeyOf(blocks[i])])
                    = PeerEntry_try_from(blocks[SetMax(same)])

C5_Witness ==
    /\ pc = "done"
    /\ Len(v_blocks) = 2
    /\ AllBuild(v_blocks)
    /\ KeyOf(v_blocks[1]) = KeyOf(v_blocks[2])
    /\ PeerEntry_try_from(v_blocks[1]).v.name = None
    /\ result.tag = "Ok"
    /\ result.v["k1"].allowed_ips = "ip2"
    /\ result.v["k1"].name = Some("n2")

\* C6: lines outside the [Peer] sections reach no record and no error
\* payload: every record returned is the one built from the lines of one
\* [Peer] section, an error returned carries the lines of one [Peer] section,
\* and the values that occur only under [Interface] occur in neither.
C6_OutsideIgnored ==
    pc = "done" =>
        LET inside == Range(ExpectedBlocks(input_lines))
        IN /\ result.tag = "Err" =>
                /\ result.lines \in inside
                /\ \A l \in Range(result.lines) :
                    l \notin {"PublicKey = k9", "AllowedIPs = ip9",
                              "# friendly_name=n9"}
           /\ result.tag = "Ok" =>
                \A k \in DOMAIN result.v :
                    /\ \E b \in inside : PeerEntry_try_from(b) = Ok(result.v[k])
                    /\ k # "k9"
                    /\ result.v[k].allowed_ips # "ip9"
                    /\ result.v[k].name # Some("n9")

C6_Witness ==
    /\ pc = "done"
    /\ Len(input_lines) > 0
    /\ input_lines[1] = "PublicKey = k3"
    /\ \E i \in 1..Len(input_lines) : input_lines[i] = "PublicKey = k9"
    /\ result.tag = "Ok"
    /\ DOMAIN result.v = {"k1"}

\* C7: a block that builds has name Some(v) exactly when one of its lines,
\* trimmed, is a '#' comment whose key is friendly_name, v being the value of
\* the last such line; otherwise name is None.
C7_FriendlyName ==
    (pc = "tf_done" /\ ret.tag = "Ok") => ret.v.name = ExpectedName(block)

\* C8: after the scan public_key (allowed_ips) is the trimmed text after the
\* first '=' of the last line matching publickey (allowedips), empty when no
\* line matches, and the block builds exactly when both are non-empty.
C8_LastLineWins ==
    (pc = "tf_done" /\ ~acc.panicked) =>
        /\ acc.public_key = ExpectedField(block, "publickey")
        /\ acc.allowed_ips = ExpectedField(block, "allowedips")
        /\ ret.tag = "Ok" <=> (ExpectedField(block, "publickey") # ""
                               /\ ExpectedField(block, "allowedips") # "")

\* C8, supporting: the same for the blocks whose matching lines all hold '='.
C8_LastLineWinsWithEquals ==
    ( /\ pc = "tf_done"
      /\ ~acc.panicked
      /\ \A i \in KeyLines(block, "publickey") \cup KeyLines(block, "allowedips") :
            EqualsAt(block[i]) # {} ) =>
        /\ acc.public_key = ExpectedField(block, "publickey")
        /\ acc.allowed_ips = ExpectedField(block, "allowedips")
        /\ ret.tag = "Ok" <=> (acc.public_key # "" /\ acc.allowed_ips # "")

\* C9: there is one block per line that is exactly "[Peer]", in input order,
\* holding the non-empty lines up to the next line starting with '[' or the
\* end of the input; the blocks closed so far are already those final blocks.
C9_Segmenter ==
    LET expected == ExpectedBlocks(input_lines)
    IN /\ pc = "scan" =>
            /\ Len(v_blocks) <= Len(expected)
            /\ v_blocks = SubSeq(expected, 1, Len(v_blocks))
       /\ pc \in {"build", "done"} => v_blocks = expected

C9_Witness ==
    /\ pc = "build"
    /\ Len(v_blocks) = 2
    /\ cur_block.tag = "Some"
    /\ \E i \in 1..Len(input_lines) : input_lines[i] = ""
    /\ \E i \in 1..Len(input_lines) : input_lines[i] = " "
    /\ v_blocks[2] = <<"PublicKey = k2", " ">>

\* C10: for a line starting with '#', the result is None exactly when the
\* text after the '#' holds no '='; otherwise it is Some of the text before
\* the first '=' and the text after it, each trimmed at both ends only.
C10_PoundKeyValue ==
    pc = "pound_ret" => pret = CommentKeyValue(arg)

C10_Witness ==
    /\ pc = "pound_ret"
    /\ arg = "# k= "
    /\ pret = Some(<<"k", "">>)

====
